---- MODULE Spec2Model ----
(***************************************************************************)
(* FHIRspective Databricks notebooks: the ingestion of assessment payloads *)
(* into the Delta tables assessments_meta, assessment_results and          *)
(* validation_issues (01_ingest_fhir_assessments.py), the MERGE that       *)
(* maintains quality_trends_daily, and the dimension_scores report         *)
(* (02_quality_analytics.py).                                              *)
(*                                                                         *)
(* Tables are bags of rows (a Delta table is an unordered multiset).  An   *)
(* optional value (a missing dict key, Python None, SQL NULL) is the empty *)
(* set, a present value v is {v}.  The clock counts days: a timestamp, the *)
(* int(time.time()) of an identifier and a date are all the number of the  *)
(* day.  Columns no query of the notebooks reads back (server_url,         *)
(* resources, sample_size, validator, framework, overall_score,            *)
(* resource_id, field_path, is_auto_fixed) are left out of the rows.       *)
(* time.time() and current_timestamp() read the clock.  An exception       *)
(* leaves ingest_assessment_data at the statement that raises it: what was *)
(* written before stays written.                                           *)
(***************************************************************************)
EXTENDS Integers, Sequences, FiniteSets, Bags, TLC

VARIABLES
  assessments_meta,      \* bag of rows of table assessments_meta
  assessment_results,    \* bag of rows of table assessment_results
  validation_issues,     \* bag of rows of table validation_issues
  quality_trends_daily,  \* bag of rows of table quality_trends_daily
  now,                   \* the wall clock
  runs,                  \* consecutive update_quality_trends runs for the
                         \* current date since the facts last changed (<= 2)
  pc,                    \* concurrent aggregator runs: position of each
  source,                \* concurrent aggregator runs: what each has read
  inflight               \* ingest_assessment_data calls between two writes

vars == <<assessments_meta, assessment_results, validation_issues,
          quality_trends_daily, now, runs, pc, source, inflight>>

facts == <<assessments_meta, assessment_results, validation_issues>>

----------------------------------------------------------------------------
(* Bounds of the model *)

MaxDate == 1          \* dates are 0..MaxDate
MaxIngests == 2       \* calls of ingest_assessment_data in one behaviour
MaxList == 1          \* length of resourceScores and of topIssues

Dates == 0..MaxDate
AssessmentIds == {1, 2}
UserIds == {1, 2}
ResourceTypes == {"Patient", "Observation"}
Scores == {60, 80}
DimValues == {40, 80}
Messages == {"m1"}
Dimensions == {"completeness", "conformity", "plausibility",
               "timeliness", "calculability"}

----------------------------------------------------------------------------
(* Optional values and arithmetic helpers *)

None == {}
Some(v) == {v}
TheValue(o) == CHOOSE v \in o : TRUE

RECURSIVE SumFn(_, _)
SumFn(S, f) ==
  IF S = {} THEN 0
  ELSE LET x == CHOOSE y \in S : TRUE IN f[x] + SumFn(S \ {x}, f)

RECURSIVE GCD(_, _)
GCD(a, b) == IF b = 0 THEN a ELSE GCD(b, a % b)

\* An exact quotient n/d (d > 0, n >= 0) in lowest terms.
Ratio(n, d) == LET g == GCD(n, d) IN [num |-> n \div g, den |-> d \div g]

----------------------------------------------------------------------------
(* Payloads handed to ingest_assessment_data.  A dict is a record whose     *)
(* optional keys are optional values; completedAt can also be present and   *)
(* None, so it carries a 'present' flag.                                    *)

CompletedAts ==
  {[present |-> FALSE, value |-> None], [present |-> TRUE, value |-> None]}
    \cup {[present |-> TRUE, value |-> Some(d)] : d \in Dates}

CreatedAts == {0}

ValidAssessments ==
  {[id |-> Some(i), userId |-> Some(u), status |-> Some("completed"),
    completedAt |-> c, createdAt |-> t] :
      i \in AssessmentIds, u \in UserIds, c \in CompletedAts, t \in CreatedAts}

\* One required key of the metadata missing.
DefectiveAssessments ==
  LET a == CHOOSE x \in ValidAssessments : TRUE
  IN {[a EXCEPT !.id = None], [a EXCEPT !.userId = None],
      [a EXCEPT !.status = None]}

AssessmentPayloads == ValidAssessments \cup DefectiveAssessments

FullDims == [d \in Dimensions |-> Some(40)]

\* Dimension maps in which at most one dimension is absent or differs.
DimMaps ==
  {FullDims} \cup
  {[FullDims EXCEPT ![d] = v] : d \in Dimensions,
                                v \in {None} \cup {Some(x) : x \in DimValues}}

ScoreBlocks(dimMaps) ==
  {[resourceType |-> Some(rt), overallScore |-> Some(q),
    dimensionScores |-> Some(m)] :
      rt \in ResourceTypes, q \in Scores, m \in dimMaps}

DefectiveBlocks ==
  LET b == CHOOSE x \in ScoreBlocks({FullDims}) : TRUE
  IN {[b EXCEPT !.resourceType = None], [b EXCEPT !.overallScore = None],
      [b EXCEPT !.dimensionScores = None]}

Issues ==
  {[resourceType |-> rt, dimension |-> Some("completeness"),
    severity |-> Some("error"), message |-> Some(m)] :
      rt \in {None, Some("Patient")}, m \in Messages}

DefectiveIssues ==
  LET i == CHOOSE x \in Issues : TRUE
  IN {[i EXCEPT !.dimension = None], [i EXCEPT !.severity = None],
      [i EXCEPT !.message = None]}

\* An optional key holding a non-empty list of at most MaxList elements.
OptLists(S) ==
  {None} \cup {Some(l) : l \in UNION {[1..n -> S] : n \in 1..MaxList}}

ResultsPayloads(blocks, issues) ==
  {[resourceScores |-> rs, topIssues |-> ti] :
      rs \in OptLists(blocks), ti \in OptLists(issues)}

Range(l) == {l[k] : k \in DOMAIN l}

\* The blocks of a payload, as a list.
Blocks(results) ==
  IF results.resourceScores = None THEN <<>>
  ELSE TheValue(results.resourceScores)

----------------------------------------------------------------------------
(* ingest_assessment_data *)

today == now

\* assessment.get('completedAt') or assessment['createdAt']
MetaExecutionDate(assessment) ==
  IF assessment.completedAt.value = None
    THEN assessment.createdAt
    ELSE TheValue(assessment.completedAt.value)

\* The subscripts assessment['id'], ['userId'], ['status'] raise KeyError.
MetaRaises(assessment) ==
  \/ assessment.id = None
  \/ assessment.userId = None
  \/ assessment.status = None

MetaRow(assessment) ==
  [assessment_id  |-> TheValue(assessment.id),
   user_id        |-> TheValue(assessment.userId),
   execution_date |-> MetaExecutionDate(assessment),
   status         |-> TheValue(assessment.status),
   created_at     |-> assessment.createdAt]

\* dimensionScores.get(k, 0): a missing required dimension is stored as 0.
GetOrZero(dims, k) == IF dims[k] = None THEN Some(0) ELSE dims[k]

\* dimensionScores.get(k): a missing optional dimension is stored as NULL.
GetOrNone(dims, k) == dims[k]

\* The subscripts score['resourceType'], ['overallScore'],
\* ['dimensionScores'] raise KeyError.
ScoreRaisesKeyError(score) ==
  \/ score.resourceType = None
  \/ score.overallScore = None
  \/ score.dimensionScores = None

\* assessment.get('completedAt', assessment['createdAt']).split('T'): a
\* completedAt that is present and None has no split (AttributeError).
SplitRaises(assessment) ==
  assessment.completedAt.present /\ assessment.completedAt.value = None

\* assessment.get('completedAt', assessment['createdAt']).split('T')[0]
ResultExecutionDate(assessment) ==
  IF assessment.completedAt.present
    THEN TheValue(assessment.completedAt.value)
    ELSE assessment.createdAt

\* f"{assessment['id']}_{score['resourceType']}_{int(time.time())}"
ResultId(assessment, score, time) ==
  <<TheValue(assessment.id), TheValue(score.resourceType), time>>

ResultRow(assessment, score, time) ==
  LET dims == TheValue(score.dimensionScores)
  IN [result_id           |-> ResultId(assessment, score, time),
      assessment_id       |-> TheValue(assessment.id),
      resource_type       |-> TheValue(score.resourceType),
      quality_score       |-> TheValue(score.overallScore),
      completeness_score  |-> GetOrZero(dims, "completeness"),
      conformity_score    |-> GetOrZero(dims, "conformity"),
      plausibility_score  |-> GetOrZero(dims, "plausibility"),
      timeliness_score    |-> GetOrNone(dims, "timeliness"),
      calculability_score |-> GetOrNone(dims, "calculability"),
      execution_date      |-> ResultExecutionDate(assessment),
      created_at          |-> time]

\* issue.get('resourceType', 'unknown')
IssueResourceType(issue) ==
  IF issue.resourceType = None THEN "unknown" ELSE TheValue(issue.resourceType)

\* The subscripts issue['message'], ['dimension'], ['severity'] raise KeyError.
IssueRaises(issue) ==
  \/ issue.message = None
  \/ issue.dimension = None
  \/ issue.severity = None

\* hash(issue['message']), within one interpreter process (Python salts the
\* hashes of strings per process).
Hash(message) == <<"hash", message>>

\* f"{id}_{resourceType}_{int(time.time())}_{hash(issue['message'])}"
IssueId(assessment, issue, time) ==
  <<TheValue(assessment.id), IssueResourceType(issue), time,
    Hash(TheValue(issue.message))>>

IssueRow(assessment, issue, time) ==
  [issue_id      |-> IssueId(assessment, issue, time),
   result_id     |-> <<TheValue(assessment.id), IssueResourceType(issue)>>,
   assessment_id |-> TheValue(assessment.id),
   resource_type |-> IssueResourceType(issue),
   dimension     |-> TheValue(issue.dimension),
   severity      |-> TheValue(issue.severity),
   message       |-> TheValue(issue.message),
   detected_at   |-> time]

\* The bag of rows a list comprehension over l builds (row(k) for element k).
RECURSIVE RowsOf(_, _)
RowsOf(l, row) ==
  IF l = <<>> THEN EmptyBag
  ELSE SetToBag({row[Head(l)]}) (+) RowsOf(Tail(l), row)

\* Step 2 raises before anything of it is written.
ResultsRaise(assessment, results) ==
  /\ results.resourceScores # None
  /\ \/ \E score \in Range(TheValue(results.resourceScores)) :
          ScoreRaisesKeyError(score)
     \/ SplitRaises(assessment)

\* Step 3 raises before anything of it is written.
IssuesRaise(results) ==
  /\ results.topIssues # None
  /\ \E issue \in Range(TheValue(results.topIssues)) : IssueRaises(issue)

ResultRows(assessment, results, time) ==
  IF results.resourceScores = None THEN EmptyBag
  ELSE LET l == TheValue(results.resourceScores)
       IN RowsOf(l, [score \in Range(l) |->
                       ResultRow(assessment, score, time)])

IssueRows(assessment, results, time) ==
  IF results.topIssues = None THEN EmptyBag
  ELSE LET l == TheValue(results.topIssues)
       IN RowsOf(l, [issue \in Range(l) |->
                       IssueRow(assessment, issue, time)])

\* The number of the step (1..3) at which the call raises, 0 if it returns.
RaisesAt(assessment, results) ==
  IF MetaRaises(assessment) THEN 1
  ELSE IF ResultsRaise(assessment, results) THEN 2
  ELSE IF IssuesRaise(results) THEN 3
  ELSE 0

Ingested == BagCardinality(assessments_meta)

ingest_assessment_data(assessment, results) ==
  LET r == RaisesAt(assessment, results)
  IN /\ Ingested < MaxIngests
     /\ assessments_meta' =
          IF r = 1 THEN assessments_meta
          ELSE assessments_meta (+) SetToBag({MetaRow(assessment)})
     /\ assessment_results' =
          IF r \in {1, 2} THEN assessment_results
          ELSE assessment_results (+) ResultRows(assessment, results, now)
     /\ validation_issues' =
          IF r \in {1, 2, 3} THEN validation_issues
          ELSE validation_issues (+) IssueRows(assessment, results, now)
     /\ runs' = IF r = 1 THEN runs ELSE 0
     /\ UNCHANGED <<quality_trends_daily, now, pc, source, inflight>>

----------------------------------------------------------------------------
(* update_quality_trends: MERGE INTO quality_trends_daily USING (SELECT ...) *)

\* DATE(execution_date) of the select list is the grouping expression
\* DATE(r.execution_date).
\* FROM assessment_results r JOIN assessments_meta a
\*   ON r.assessment_id = a.assessment_id
\* WHERE DATE(r.execution_date) = CURRENT_DATE()
\* One element per pair of distinct rows; JoinCopies is its multiplicity.
Joined(meta, results, date) ==
  {p \in BagToSet(results) \X BagToSet(meta) :
     /\ p[1].assessment_id = p[2].assessment_id
     /\ p[1].execution_date = date}

JoinCopies(meta, results, p) == CopiesIn(p[1], results) * CopiesIn(p[2], meta)

\* SELECT assessment_id, resource_type, COUNT(*) AS issue_count
\* FROM validation_issues GROUP BY assessment_id, resource_type
\* as seen through the LEFT JOIN: NULL when the subquery has no such row.
IssueCount(issues, assessment_id, resource_type) ==
  LET S == {i \in BagToSet(issues) :
              /\ i.assessment_id = assessment_id
              /\ i.resource_type = resource_type}
  IN IF S = {} THEN None
     ELSE Some(SumFn(S, [i \in S |-> CopiesIn(i, issues)]))

\* COALESCE(x, d)
Coalesce(x, d) == IF x = None THEN d ELSE TheValue(x)

\* SUM(i.issue_count) over the joined rows of a group: NULLs are skipped,
\* and the sum of no value is NULL.
SumIssueCount(meta, results, issues, G) ==
  LET W == {p \in G :
              IssueCount(issues, p[1].assessment_id, p[1].resource_type)
                # None}
  IN IF W = {} THEN None
     ELSE Some(SumFn(W, [p \in W |->
            JoinCopies(meta, results, p)
              * TheValue(IssueCount(issues, p[1].assessment_id,
                                    p[1].resource_type))]))

\* GROUP BY DATE(r.execution_date), a.user_id, r.resource_type
GroupKeys(meta, results, date) ==
  {<<date, p[2].user_id, p[1].resource_type>> :
     p \in Joined(meta, results, date)}

Group(meta, results, key) ==
  {p \in Joined(meta, results, key[1]) :
     p[2].user_id = key[2] /\ p[1].resource_type = key[3]}

\* One row of the USING subquery.
SourceRow(meta, results, issues, key, time) ==
  LET G == Group(meta, results, key)
      n == SumFn(G, [p \in G |-> JoinCopies(meta, results, p)])
      q == SumFn(G, [p \in G |->
             JoinCopies(meta, results, p) * p[1].quality_score])
  IN [date                      |-> key[1],
      user_id                   |-> key[2],
      resource_type             |-> key[3],
      avg_quality_score         |-> Ratio(q, n),
      total_resources_evaluated |-> n,
      total_issues              |->
        Coalesce(SumIssueCount(meta, results, issues, G), 0),
      assessment_count          |->
        Cardinality({p[1].assessment_id : p \in G}),
      updated_at                |-> time]

\* The USING subquery with JOIN in place of LEFT JOIN: a group none of whose
\* records has an issue count yields no row.
SourceRowsInnerJoin(meta, results, issues, date, time) ==
  {SourceRow(meta, results, issues, key, time) :
     key \in {k \in GroupKeys(meta, results, date) :
                SumIssueCount(meta, results, issues,
                              Group(meta, results, k)) # None}}

\* The USING subquery at CURRENT_DATE() = date, CURRENT_TIMESTAMP() = time.
SourceRows(meta, results, issues, date, time) ==
  {SourceRow(meta, results, issues, key, time) :
     key \in GroupKeys(meta, results, date)}

\* ON target.date = source.date AND target.user_id = source.user_id
\*    AND target.resource_type = source.resource_type
Matches(t, s) ==
  /\ t.date = s.date
  /\ t.user_id = s.user_id
  /\ t.resource_type = s.resource_type

\* WHEN MATCHED THEN UPDATE SET ...
WhenMatched(t, src) ==
  IF \E s \in src : Matches(t, s)
    THEN LET s == CHOOSE x \in src : Matches(t, x)
         IN [t EXCEPT !.avg_quality_score = s.avg_quality_score,
                      !.total_resources_evaluated =
                         s.total_resources_evaluated,
                      !.total_issues = s.total_issues,
                      !.assessment_count = s.assessment_count,
                      !.updated_at = s.updated_at]
    ELSE t

\* An insert of every USING row, matched or not.
WhenNotMatchedAll(target, src) == src

\* WHEN NOT MATCHED THEN INSERT *
WhenNotMatched(target, src) ==
  {s \in src : ~ \E t \in BagToSet(target) : Matches(t, s)}

\* A plain append of the USING rows, with no WHEN MATCHED clause.
MergeAppendOnly(target, src) == target (+) SetToBag(src)

\* The table after MERGE INTO target USING src.
Merge(target, src) ==
  LET T        == BagToSet(target)
      inserted == WhenNotMatched(target, src)
      rows     == {WhenMatched(t, src) : t \in T} \cup inserted
  IN IF rows = {} THEN EmptyBag
     ELSE [row \in rows |->
             LET from == {t \in T : WhenMatched(t, src) = row}
             IN SumFn(from, [t \in from |-> CopiesIn(t, target)])
                  + (IF row \in inserted THEN 1 ELSE 0)]

update_quality_trends ==
  /\ quality_trends_daily' =
       Merge(quality_trends_daily,
             SourceRows(assessments_meta, assessment_results,
                        validation_issues, today, now))
  /\ runs' = IF runs < 2 THEN runs + 1 ELSE runs
  /\ UNCHANGED <<facts, now, pc, source, inflight>>

----------------------------------------------------------------------------
(* The clock *)

Tick ==
  /\ now < MaxDate
  /\ now' = now + 1
  /\ runs' = 0
  /\ UNCHANGED <<facts, quality_trends_daily, pc, source, inflight>>

----------------------------------------------------------------------------
(* Sequential use of the notebook *)

Procs == {1, 2}

Init ==
  /\ assessments_meta = EmptyBag
  /\ assessment_results = EmptyBag
  /\ validation_issues = EmptyBag
  /\ quality_trends_daily = EmptyBag
  /\ now = 0
  /\ runs = 0
  /\ pc = [p \in Procs |-> "idle"]
  /\ source = [p \in Procs |-> [date |-> 0, version |-> 0, rows |-> {}]]
  /\ inflight = {}

\* Payloads with complete dimension scores, sound or with one key missing.
SeqResults ==
  ResultsPayloads(ScoreBlocks({FullDims}) \cup DefectiveBlocks,
                  Issues \cup DefectiveIssues)

Ingest ==
  \E assessment \in AssessmentPayloads, results \in SeqResults :
    ingest_assessment_data(assessment, results)

Next ==
  \/ Ingest
  \/ update_quality_trends
  \/ Tick

Spec == Init /\ [][Next]_vars

----------------------------------------------------------------------------
(* 02_quality_analytics.py: dimension_scores *)

\* The column of assessment_results that holds a dimension.
DimensionColumn(r, dim) ==
  CASE dim = "completeness"  -> r.completeness_score
    [] dim = "conformity"    -> r.conformity_score
    [] dim = "plausibility"  -> r.plausibility_score
    [] dim = "timeliness"    -> r.timeliness_score
    [] dim = "calculability" -> r.calculability_score

\* The rows of a resource type whose dimension column is not NULL.
NonNull(results, resource_type, dim) ==
  {r \in BagToSet(results) :
     r.resource_type = resource_type /\ DimensionColumn(r, dim) # None}

\* COUNT of the non-NULL values of the column: the divisor of AVG.
NonNullCount(results, resource_type, dim) ==
  LET S == NonNull(results, resource_type, dim)
  IN SumFn(S, [r \in S |-> CopiesIn(r, results)])

\* SUM of the non-NULL values of the column.
NonNullSum(results, resource_type, dim) ==
  LET S == NonNull(results, resource_type, dim)
  IN SumFn(S, [r \in S |->
       CopiesIn(r, results) * TheValue(DimensionColumn(r, dim))])

\* ROUND(n/d, 2) in hundredths, half up (n >= 0, d > 0).
Round2(n, d) == (200 * n + d) \div (2 * d)

\* ROUND(AVG(column), 2): AVG skips NULLs and is NULL over no value.
RoundAvg(results, resource_type, dim) ==
  IF NonNullCount(results, resource_type, dim) = 0 THEN None
  ELSE Some(Round2(NonNullSum(results, resource_type, dim),
                   NonNullCount(results, resource_type, dim)))

\* SELECT resource_type, ROUND(AVG(..), 2) .. GROUP BY resource_type
dimension_scores(results) ==
  [rt \in {r.resource_type : r \in BagToSet(results)} |->
     [dim \in Dimensions |-> RoundAvg(results, rt, dim)]]

----------------------------------------------------------------------------
(* Ingestion of payloads that differ in their dimension scores *)

\* Assessments of one owner, dated by createdAt.
DimAssessments ==
  {a \in ValidAssessments : a.userId = Some(1) /\ ~ a.completedAt.present}

\* Score blocks over every dimension map of DimMaps, and no issue.
DimResults ==
  {r \in ResultsPayloads(ScoreBlocks(DimMaps), Issues) :
     r.resourceScores # None /\ r.topIssues = None}

IngestDim ==
  \E assessment \in DimAssessments, results \in DimResults :
    ingest_assessment_data(assessment, results)

NextDim ==
  \/ IngestDim
  \/ update_quality_trends
  \/ Tick

SpecDim == Init /\ [][NextDim]_vars

----------------------------------------------------------------------------
(* Two update_quality_trends calls running at the same time.  The function  *)
(* is one MERGE statement with no lock and no retry around it: a run        *)
(* evaluates the USING subquery on the fact tables as they are when it      *)
(* reads them, and commits the merge to quality_trends_daily later.  A      *)
(* commit either succeeds or, when another run has committed to the table   *)
(* since this run began, may be refused by the table's optimistic           *)
(* concurrency control; the exception leaves the function (it has no        *)
(* try/except), so the run writes nothing.                                  *)

\* Commits made to quality_trends_daily so far.
Version == Cardinality({p \in Procs : pc[p] = "done"})

AggRead(p) ==
  /\ pc[p] = "idle"
  /\ source' = [source EXCEPT ![p] =
                  [date    |-> today,
                   version |-> Version,
                   rows    |-> SourceRows(assessments_meta,
                                          assessment_results,
                                          validation_issues, today, now)]]
  /\ pc' = [pc EXCEPT ![p] = "merge"]
  /\ UNCHANGED <<facts, quality_trends_daily, now, runs, inflight>>

AggCommit(p) ==
  /\ pc[p] = "merge"
  /\ quality_trends_daily' = Merge(quality_trends_daily, source[p].rows)
  /\ pc' = [pc EXCEPT ![p] = "done"]
  /\ UNCHANGED <<facts, now, runs, source, inflight>>

AggConflict(p) ==
  /\ pc[p] = "merge"
  /\ source[p].version < Version
  /\ pc' = [pc EXCEPT ![p] = "raised"]
  /\ UNCHANGED <<facts, quality_trends_daily, now, runs, source, inflight>>

\* Ingestions of complete payloads of one owner, dated by createdAt.
IngestConc ==
  \E assessment \in DimAssessments,
     results \in {r \in ResultsPayloads(ScoreBlocks({FullDims}), Issues) :
                    r.resourceScores # None /\ r.topIssues = None} :
    ingest_assessment_data(assessment, results)

NextConc ==
  \/ IngestConc
  \/ \E p \in Procs : AggRead(p)
  \/ \E p \in Procs : AggCommit(p)
  \/ \E p \in Procs : AggConflict(p)
  \/ Tick

SpecConc == Init /\ [][NextConc]_vars

----------------------------------------------------------------------------
(* ingest_assessment_data as other sessions see it: its three              *)
(* saveAsTable appends are three commits, and a reader or another          *)
(* ingestion can run between two of them.  A call in flight is             *)
(* [assessment, results, step], step being the write it makes next.        *)

\* Step 1: the metadata row is built and appended (or the call raises
\* before it has written anything).
IngestMeta(assessment, results) ==
  /\ Ingested < MaxIngests
  /\ [assessment |-> assessment, results |-> results, step |-> 2]
       \notin inflight
  /\ IF MetaRaises(assessment)
       THEN UNCHANGED <<assessments_meta, inflight, runs>>
       ELSE /\ assessments_meta' =
                 assessments_meta (+) SetToBag({MetaRow(assessment)})
            /\ inflight' = inflight \cup
                 {[assessment |-> assessment, results |-> results,
                   step |-> 2]}
            /\ runs' = 0
  /\ UNCHANGED <<assessment_results, validation_issues,
                 quality_trends_daily, now, pc, source>>

\* Step 2: the result rows are built and appended, or the call raises.
IngestScores(call) ==
  /\ call \in inflight
  /\ call.step = 2
  /\ IF ResultsRaise(call.assessment, call.results)
       THEN /\ inflight' = inflight \ {call}
            /\ UNCHANGED <<assessment_results, runs>>
       ELSE /\ assessment_results' =
                 assessment_results
                   (+) ResultRows(call.assessment, call.results, now)
            /\ inflight' = (inflight \ {call})
                             \cup {[call EXCEPT !.step = 3]}
            /\ runs' = 0
  /\ UNCHANGED <<assessments_meta, validation_issues,
                 quality_trends_daily, now, pc, source>>

\* Step 3: the issue rows are built and appended, or the call raises.
IngestIssues(call) ==
  /\ call \in inflight
  /\ call.step = 3
  /\ inflight' = inflight \ {call}
  /\ IF IssuesRaise(call.results)
       THEN UNCHANGED <<validation_issues, runs>>
       ELSE /\ validation_issues' =
                 validation_issues
                   (+) IssueRows(call.assessment, call.results, now)
            /\ runs' = 0
  /\ UNCHANGED <<assessments_meta, assessment_results,
                 quality_trends_daily, now, pc, source>>

\* Assessments of one owner without a completion date (the key missing or
\* None), sound or with one key of the metadata missing.
StepAssessments ==
  {a \in ValidAssessments :
     a.userId = Some(1) /\ a.completedAt.value = None}
    \cup DefectiveAssessments

\* Payloads about Patient resources, sound or without a resourceType or a
\* message.
StepResults ==
  {r \in SeqResults :
     /\ \A b \in Range(Blocks(r)) :
          /\ b.resourceType # Some("Observation")
          /\ b.overallScore # None
          /\ b.dimensionScores # None
     /\ r.topIssues # None
          => \A i \in Range(TheValue(r.topIssues)) :
               i.dimension # None /\ i.severity # None}

NextSteps ==
  \/ \E assessment \in StepAssessments, results \in StepResults :
       IngestMeta(assessment, results)
  \/ \E call \in inflight : IngestScores(call)
  \/ \E call \in inflight : IngestIssues(call)
  \/ update_quality_trends
  \/ Tick

SpecSteps == Init /\ [][NextSteps]_vars

----------------------------------------------------------------------------
(* Views of the Trend Store used by the properties *)

\* A DailyTrend row without its updated_at.
StripUpdatedAt(t) ==
  [date                      |-> t.date,
   user_id                   |-> t.user_id,
   resource_type             |-> t.resource_type,
   avg_quality_score         |-> t.avg_quality_score,
   total_resources_evaluated |-> t.total_resources_evaluated,
   total_issues              |-> t.total_issues,
   assessment_count          |-> t.assessment_count]

\* The bag of the rows of trends dated d, each without its updated_at.
TrendRowsOn(trends, d) ==
  LET S    == {t \in BagToSet(trends) : t.date = d}
      rows == {StripUpdatedAt(t) : t \in S}
  IN IF rows = {} THEN EmptyBag
     ELSE [row \in rows |->
             LET from == {t \in S : StripUpdatedAt(t) = row}
             IN SumFn(from, [t \in from |-> CopiesIn(t, trends)])]

\* The number of rows of trends with the composite key of row t.
RowsWithKey(trends, t) ==
  LET S == {x \in BagToSet(trends) : Matches(x, t)}
  IN SumFn(S, [x \in S |-> CopiesIn(x, trends)])

----------------------------------------------------------------------------
(* C1: a second update_quality_trends run for the same date, with no       *)
(* change of the facts since the first, leaves the DailyTrend rows of that *)
(* date as the first run left them, updated_at aside.                      *)
C1_AggregationIdempotent ==
  [][(runs >= 1 /\ update_quality_trends)
       => TrendRowsOn(quality_trends_daily', today)
            = TrendRowsOn(quality_trends_daily, today)]_vars

\* Two runs in a row have written rows for today.
C1_Witness ==
  /\ runs = 2
  /\ \E t \in BagToSet(quality_trends_daily) : t.date = today

(* C2: quality_trends_daily never holds two rows with the same composite   *)
(* key (date, user_id, resource_type), whatever was ingested, re-ingested  *)
(* and aggregated.                                                         *)
C2_TrendKeyUnique ==
  \A t \in BagToSet(quality_trends_daily) :
    RowsWithKey(quality_trends_daily, t) = 1

\* An assessment was ingested twice and its keys were aggregated twice: the
\* second run met the rows of the first.
C2_Witness ==
  /\ runs = 2
  /\ \E a \in BagToSet(assessments_meta) : CopiesIn(a, assessments_meta) = 2
  /\ \E t1, t2 \in BagToSet(quality_trends_daily) :
       t1.date = today /\ t2.date = today /\ ~ Matches(t1, t2)

\* The rows an aggregation of the facts as they are now writes for date d,
\* each without its updated_at.
CurrentRowsOn(d) ==
  SetToBag({StripUpdatedAt(s) :
              s \in SourceRows(assessments_meta, assessment_results,
                               validation_issues, d, now)})

\* Run p read the facts as they are now.
ReadCurrent(p) ==
  SetToBag({StripUpdatedAt(s) : s \in source[p].rows})
    = CurrentRowsOn(source[p].date)

----------------------------------------------------------------------------
(* Views of the Fact Store used by the properties *)

\* The facts are exactly what one ingestion of (assessment, results) at
\* time t wrote.
FactsAreIngestOf(assessment, results, t) ==
  /\ assessments_meta = SetToBag({MetaRow(assessment)})
  /\ assessment_results = ResultRows(assessment, results, t)
  /\ validation_issues = IssueRows(assessment, results, t)

\* A block of the payload lacks a required dimension score.
LacksRequired(results) ==
  \E k \in DOMAIN Blocks(results) :
    \E dim \in {"completeness", "conformity", "plausibility"} :
      TheValue(Blocks(results)[k].dimensionScores)[dim] = None

\* The ResourceScoreRecord facts of the group key = <<date, owner, type>>.
GroupFacts(key) ==
  {r \in BagToSet(assessment_results) :
     /\ r.execution_date = key[1]
     /\ r.resource_type = key[3]
     /\ \E a \in BagToSet(assessments_meta) :
          a.assessment_id = r.assessment_id /\ a.user_id = key[2]}

\* The groups of date d that have at least one ResourceScoreRecord.
FactKeys(d) ==
  {key \in {d} \X UserIds \X ResourceTypes : GroupFacts(key) # {}}

\* No ValidationIssue fact belongs to a record of the group.
NoIssues(key) ==
  ~ \E i \in BagToSet(validation_issues), r \in GroupFacts(key) :
      i.assessment_id = r.assessment_id /\ i.resource_type = r.resource_type

\* The rows of a bag that satisfy keep.
Restrict(B, keep) ==
  IF keep = {} THEN EmptyBag ELSE [x \in keep |-> CopiesIn(x, B)]

ResultsOn(d) ==
  Restrict(assessment_results,
           {r \in BagToSet(assessment_results) : r.execution_date = d})

IssuesDetectedOn(d) ==
  Restrict(validation_issues,
           {i \in BagToSet(validation_issues) : i.detected_at = d})

----------------------------------------------------------------------------
(* C4: ingesting again the payload (with score blocks and issues) that the *)
(* Fact Store was built from, at any time, generates the result_id and     *)
(* issue_id values it already holds and leaves the Fact Store without a    *)
(* duplicate fact, i.e. as it was.                                         *)
C4_ReplaySafe ==
  [][\A a \in ValidAssessments, r \in SeqResults :
       (/\ RaisesAt(a, r) = 0
        /\ r.resourceScores # None
        /\ r.topIssues # None
        /\ \E t \in Dates : FactsAreIngestOf(a, r, t)
        /\ ingest_assessment_data(a, r))
         => /\ \A row \in BagToSet(ResultRows(a, r, now)) :
                 \E old \in BagToSet(assessment_results) :
                   old.result_id = row.result_id
            /\ \A row \in BagToSet(IssueRows(a, r, now)) :
                 \E old \in BagToSet(validation_issues) :
                   old.issue_id = row.issue_id
            /\ facts' = facts]_vars

(* C5: a payload with a score block that lacks completeness, conformity or *)
(* plausibility ends in an error and writes no ResourceScoreRecord; one    *)
(* that lacks only timeliness or calculability is accepted and the         *)
(* dimension is stored as absent.                                          *)
C5_RequiredDimensionsRejected ==
  [][\A a \in DimAssessments, r \in DimResults :
       ingest_assessment_data(a, r)
         => IF LacksRequired(r)
              THEN /\ RaisesAt(a, r) # 0
                   /\ assessment_results' = assessment_results
              ELSE /\ RaisesAt(a, r) = 0
                   /\ \A row \in BagToSet(ResultRows(a, r, now)) :
                        /\ row \in BagToSet(assessment_results')
                        /\ \E k \in DOMAIN Blocks(r) :
                             \A dim \in {"timeliness", "calculability"} :
                               DimensionColumn(row, dim)
                                 = TheValue(Blocks(r)[k].dimensionScores)[dim]
     ]_vars

(* C6: an ingestion that fails at any step leaves none of the assessment's *)
(* facts in the Fact Store.                                                *)
C6_AtomicRejection ==
  [][\A a \in AssessmentPayloads, r \in SeqResults :
       (RaisesAt(a, r) # 0 /\ ingest_assessment_data(a, r))
         => facts' = facts]_vars

(* C7: after an aggregation run for date d, every group of d with at least *)
(* one ResourceScoreRecord has a DailyTrend row whose avg_quality_score is *)
(* the mean of quality_score over the group's facts, whose                 *)
(* total_resources_evaluated is the number of those facts and whose        *)
(* assessment_count is the number of distinct assessment ids among them.   *)
C7_AggregateValuesCorrect ==
  [][update_quality_trends
       => \A key \in FactKeys(today) :
            LET F == GroupFacts(key)
                n == SumFn(F, [r \in F |-> CopiesIn(r, assessment_results)])
                q == SumFn(F, [r \in F |->
                       CopiesIn(r, assessment_results) * r.quality_score])
            IN \E t \in BagToSet(quality_trends_daily') :
                 /\ <<t.date, t.user_id, t.resource_type>> = key
                 /\ t.avg_quality_score = Ratio(q, n)
                 /\ t.total_resources_evaluated = n
                 /\ t.assessment_count
                      = Cardinality({r.assessment_id : r \in F})]_vars

(* C8: an aggregation run for date d1 leaves the DailyTrend rows of every  *)
(* other date as they were, and the rows of d1 after it are those computed *)
(* from the ResourceScoreRecord facts executed on d1 and the               *)
(* ValidationIssue facts detected on d1 alone.                             *)
C8_PartitionIsolation ==
  [][update_quality_trends
       => /\ \A d \in Dates \ {today} :
               Restrict(quality_trends_daily',
                        {t \in BagToSet(quality_trends_daily') : t.date = d})
                 = Restrict(quality_trends_daily,
                        {t \in BagToSet(quality_trends_daily) : t.date = d})
          /\ TrendRowsOn(quality_trends_daily', today)
               = SetToBag({StripUpdatedAt(s) :
                    s \in SourceRows(assessments_meta, ResultsOn(today),
                                     IssuesDetectedOn(today), today, now)})
     ]_vars

(* C9: after an aggregation run for date d, every group of d that has a    *)
(* ResourceScoreRecord and no ValidationIssue has exactly one DailyTrend   *)
(* row, with total_issues = 0; and no DailyTrend row is dated on a date    *)
(* without ResourceScoreRecord facts.                                      *)
C9_ZeroIssues ==
  [][/\ update_quality_trends
          => \A key \in FactKeys(today) :
               NoIssues(key)
                 => \E t \in BagToSet(quality_trends_daily') :
                      /\ <<t.date, t.user_id, t.resource_type>> = key
                      /\ t.total_issues = 0
                      /\ RowsWithKey(quality_trends_daily', t) = 1
     /\ \A t \in BagToSet(quality_trends_daily') :
          \E r \in BagToSet(assessment_results') : r.execution_date = t.date
    ]_vars

\* An aggregation has run for a group with records and no issue, while
\* another date has no record and no row.
C9_Witness ==
  /\ runs >= 1
  /\ \E key \in FactKeys(today) :
       /\ NoIssues(key)
       /\ \E t \in BagToSet(quality_trends_daily) :
            <<t.date, t.user_id, t.resource_type>> = key /\ t.total_issues = 0
  /\ \E d \in Dates : FactKeys(d) = {}

\* The values of a dimension that the blocks of a payload for one resource
\* type carry (absent ones left out), as a bag.
PresentCount(results, resource_type, dim) ==
  Cardinality({k \in DOMAIN Blocks(results) :
     /\ Blocks(results)[k].resourceType = Some(resource_type)
     /\ TheValue(Blocks(results)[k].dimensionScores)[dim] # None})

PresentSum(results, resource_type, dim) ==
  LET K == {k \in DOMAIN Blocks(results) :
              /\ Blocks(results)[k].resourceType = Some(resource_type)
              /\ TheValue(Blocks(results)[k].dimensionScores)[dim] # None}
  IN SumFn(K, [k \in K |->
       TheValue(TheValue(Blocks(results)[k].dimensionScores)[dim])])

(* C10: ingesting a payload adds to the average that dimension_scores      *)
(* reports for a resource type and a dimension only the values the payload *)
(* carries for it: a block in which the dimension is absent adds neither   *)
(* to the numerator nor to the divisor.                                    *)
C10_DimensionAverageExclusion ==
  [][\A a \in DimAssessments, r \in DimResults :
       (RaisesAt(a, r) = 0 /\ ingest_assessment_data(a, r))
         => \A rt \in ResourceTypes, dim \in Dimensions :
              LET n == NonNullCount(assessment_results, rt, dim)
                         + PresentCount(r, rt, dim)
                  v == NonNullSum(assessment_results, rt, dim)
                         + PresentSum(r, rt, dim)
                  reported ==
                    IF rt \in DOMAIN dimension_scores(assessment_results')
                      THEN dimension_scores(assessment_results')[rt][dim]
                      ELSE None
              IN reported = IF n = 0 THEN None ELSE Some(Round2(v, n))]_vars

\* The Assessment rows of assessments_meta with a given assessment_id.
AssessmentRows(assessment_id) ==
  LET S == {a \in BagToSet(assessments_meta) :
              a.assessment_id = assessment_id}
  IN SumFn(S, [a \in S |-> CopiesIn(a, assessments_meta)])

\* The assessment ids that the ResourceScoreRecord and ValidationIssue
\* facts carry.
FactAssessmentIds ==
  {r.assessment_id : r \in BagToSet(assessment_results)}
    \cup {i.assessment_id : i \in BagToSet(validation_issues)}

(* C11: in every state, between any two writes of any ingestions and       *)
(* aggregation runs, every ResourceScoreRecord and every ValidationIssue   *)
(* carries an assessment_id that exactly one row of assessments_meta has.  *)
C11_ForeignKey ==
  \A id \in FactAssessmentIds : AssessmentRows(id) = 1

====
